---- MODULE Spec2Model ----
(***************************************************************************)
(* The Sudoku class of src/src/sudoku.js as a state machine: the           *)
(* constructor (seed, solve, hide, freeze), the public calls setNumber and *)
(* resolve that follow it, and the recursive search _resolveMatrix with    *)
(* its call stack made explicit.                                           *)
(***************************************************************************)
EXTENDS Integers, Sequences, FiniteSets, TLC

\* ------------------------------------------------------------- constants
RANDOM_NUMBERS_IN_INITIALIZATION == 8

MAXIMUM_NUMBER_ITERATIONS_UNTIL_UNSOLVABLE == 1000

\* The side of the grid (yPos*9 + xPos) and of a group (Math.floor(xPos/3)).
Side == 9

GroupSide == 3

\* new Array(81)
Cells == 81

MinN == 17

MaxN == 81

DefaultN == 31

\* --------------------------------------------------------------- bounds
\* Public calls (setNumber, resolve) made on a constructed puzzle.
MaxCalls == 2

\* The requested clue counts explored are MaxN - h for h in 0..MaxHidden,
\* next to those of ExtraN.
MaxHidden == 1

Idx(x, y) == y * Side + x

\* The outcomes of Math.random explored while seeding: (x, y, value).  The
\* first seven fill the top-left group under row 0 and the fourth cell of
\* row 0 with 2..8; the last two picks are always refused (a filled cell, a
\* value already in row 0).
SeedPicks ==
    { <<0, 1, 2>>, <<1, 1, 3>>, <<2, 1, 4>>,
      <<0, 2, 5>>, <<1, 2, 6>>, <<2, 2, 7>>,
      <<3, 0, 8>>, <<8, 2, 9>>,
      <<0, 0, 5>>, <<1, 0, 1>> }

\* The outcomes explored for the first seed value, at (0,0).
FirstValues == {1}

\* The outcomes of Math.random explored while hiding: the cells of the
\* top-left group and the fourth cell of row 0.
HidePicks == {<<x, y>> : x \in 0..(GroupSide - 1), y \in 0..(GroupSide - 1)} \cup {<<3, 0>>}

\* The cells and values the caller passes to setNumber.
UserCells == HidePicks \cup {<<8, 2>>}

UserValues == 0..9

\* Requested clue counts next to MaxN - MaxHidden .. MaxN: one that hides all
\* of HidePicks, the least accepted one, and the two just outside the
\* accepted range.
ExtraN == {MaxN - Cardinality(HidePicks), MinN, MinN - 1, MaxN + 1}

\* --------------------------------------------------------------- state
VARIABLES
    pc,                     \* where the program is
    N,                      \* the constructor's argument, after defaulting
    grid,                   \* this.grid
    originalGrid,           \* this.originalGrid
    numLength,              \* this.numLength
    SOLVE_ITERATIONS_LEFT,  \* this.SOLVE_ITERATIONS_LEFT
    remainRandomNumbers,    \* _generateSeed's local
    remainNumbers,          \* _hideNumbers' local
    stack,                  \* the frames of _resolveMatrix, innermost first
    retval,                 \* the value the innermost finished frame returned
    caller,                 \* who called resolve()
    startGrid,              \* the grid resolve() was called on
    last,                   \* the last public call and how it ended
    calls                   \* public calls made since construction

vars == <<pc, N, grid, originalGrid, numLength, SOLVE_ITERATIONS_LEFT,
          remainRandomNumbers, remainNumbers, stack, retval, caller,
          startGrid, last, calls>>

\* A JavaScript number field: absent until assigned, NaN once arithmetic is
\* done on the absent value.
Number(n) == [kind |-> "number", n |-> n]

Undefined == [kind |-> "undefined", n |-> 0]

NaN == [kind |-> "NaN", n |-> 0]

Inc(c) == IF c.kind = "number" THEN Number(c.n + 1) ELSE NaN

Dec(c) == IF c.kind = "number" THEN Number(c.n - 1) ELSE NaN

EmptyGrid == [c \in 0..(Cells - 1) |-> 0]

NoGrid == [c \in {} |-> 0]

\* ------------------------------------------------------- pure functions
getNumber(g, xPos, yPos) == g[yPos * Side + xPos]

isValidRow(g, value, xPos, yPos) ==
    \A x \in 0..8 :
        \/ x = xPos
        \/ ~ (getNumber(g, x, yPos) # 0 /\ value = getNumber(g, x, yPos))

\* isValidCol with the loop stopping one row early (y < 8).
isValidCol_StopsEarly(g, value, xPos, yPos) ==
    \A y \in 0..7 :
        \/ y = yPos
        \/ ~ (getNumber(g, xPos, y) # 0 /\ value = getNumber(g, xPos, y))

isValidCol(g, value, xPos, yPos) ==
    \A y \in 0..8 :
        \/ y = yPos
        \/ ~ (getNumber(g, xPos, y) # 0 /\ value = getNumber(g, xPos, y))

\* isValidGroup with the group's first cell left unscaled (xGroup for
\* xGroup * 3).
isValidGroup_Unscaled(g, value, xPos, yPos) ==
    LET xGroup == xPos \div GroupSide
        yGroup == yPos \div GroupSide
        firstXGroupPos == xGroup
        firstYGroupPos == yGroup * GroupSide
    IN  \A x \in firstXGroupPos..(firstXGroupPos + 2) :
            \A y \in firstYGroupPos..(firstYGroupPos + 2) :
                \/ (xPos = x /\ yPos = y)
                \/ ~ (getNumber(g, x, y) # 0 /\ value = getNumber(g, x, y))

isValidGroup(g, value, xPos, yPos) ==
    LET xGroup == xPos \div GroupSide
        yGroup == yPos \div GroupSide
        firstXGroupPos == xGroup * GroupSide
        firstYGroupPos == yGroup * GroupSide
    IN  \A x \in firstXGroupPos..(firstXGroupPos + 2) :
            \A y \in firstYGroupPos..(firstYGroupPos + 2) :
                \/ (xPos = x /\ yPos = y)
                \/ ~ (getNumber(g, x, y) # 0 /\ value = getNumber(g, x, y))

isSafe(g, value, x, y) ==
    isValidGroup(g, value, x, y) /\ isValidRow(g, value, x, y) /\ isValidCol(g, value, x, y)

\* setNumber without its test of originalGrid.
setNumber_NoClueTest(g, og, num, value, xPos, yPos) ==
    IF value = 0
    THEN [grid |-> [g EXCEPT ![yPos * Side + xPos] = 0],
          numLength |-> Dec(num), ret |-> TRUE]
    ELSE IF isSafe(g, value, xPos, yPos)
    THEN [grid |-> [g EXCEPT ![yPos * Side + xPos] = value],
          numLength |-> Inc(num), ret |-> TRUE]
    ELSE [grid |-> g, numLength |-> num, ret |-> FALSE]

\* setNumber on the fields (g, og, num): the fields after the call and the
\* value returned.
setNumber(g, og, num, value, xPos, yPos) ==
    IF og[yPos * Side + xPos] # 0
    THEN [grid |-> g, numLength |-> num, ret |-> FALSE]
    ELSE IF value = 0
    THEN [grid |-> [g EXCEPT ![yPos * Side + xPos] = 0],
          numLength |-> Dec(num), ret |-> TRUE]
    ELSE IF isSafe(g, value, xPos, yPos)
    THEN [grid |-> [g EXCEPT ![yPos * Side + xPos] = value],
          numLength |-> Inc(num), ret |-> TRUE]
    ELSE [grid |-> g, numLength |-> num, ret |-> FALSE]

\* isResolved comparing the counter with the requested N.
isResolved_AgainstN == numLength = Number(N)

isResolved == numLength = Number(81)

getCurrentGrid == grid

\* The for loop without the clearing of the cell after it.
RECURSIVE forLoop_NoClear(_, _, _, _, _, _)
forLoop_NoClear(g, og, num, x, y, i) ==
    IF i <= 9
    THEN LET s == setNumber(g, og, num, i, x, y)
         IN  IF s.ret
             THEN [grid |-> s.grid, numLength |-> s.numLength, i |-> i, called |-> TRUE]
             ELSE forLoop_NoClear(s.grid, og, s.numLength, x, y, i + 1)
    ELSE [grid |-> g, numLength |-> num, i |-> i, called |-> FALSE]

\* The for loop running from 9 down to 1: its i-th turn tries 10 - i.
RECURSIVE forLoop_Descending(_, _, _, _, _, _)
forLoop_Descending(g, og, num, x, y, i) ==
    IF i <= 9
    THEN LET s == setNumber(g, og, num, 10 - i, x, y)
         IN  IF s.ret
             THEN [grid |-> s.grid, numLength |-> s.numLength, i |-> i, called |-> TRUE]
             ELSE forLoop_Descending(s.grid, og, s.numLength, x, y, i + 1)
    ELSE LET s == setNumber(g, og, num, 0, x, y)
         IN  [grid |-> s.grid, numLength |-> s.numLength, i |-> i, called |-> FALSE]

\* The for loop of _resolveMatrix from value i on, up to its next recursive
\* call (called, with the fields as the call finds them) or past its end
\* (the cell cleared, false returned).
RECURSIVE forLoop(_, _, _, _, _, _)
forLoop(g, og, num, x, y, i) ==
    IF i <= 9
    THEN LET s == setNumber(g, og, num, i, x, y)
         IN  IF s.ret
             THEN [grid |-> s.grid, numLength |-> s.numLength, i |-> i, called |-> TRUE]
             ELSE forLoop(s.grid, og, s.numLength, x, y, i + 1)
    ELSE LET s == setNumber(g, og, num, 0, x, y)
         IN  [grid |-> s.grid, numLength |-> s.numLength, i |-> i, called |-> FALSE]

Frame(x, y) == [x |-> x, y |-> y, at |-> "entry", i |-> 0]

nextX(x) == (x + 1) % 9

nextY(x, y) == IF x = 8 THEN y + 1 ELSE y

\* -------------------------------------------------------------- actions
Init ==
    /\ pc = "idle"
    /\ N = 0
    /\ grid = NoGrid
    /\ originalGrid = NoGrid
    /\ numLength = Undefined
    /\ SOLVE_ITERATIONS_LEFT = 0
    /\ remainRandomNumbers = 0
    /\ remainNumbers = 0
    /\ stack = << >>
    /\ retval = "none"
    /\ caller = "none"
    /\ startGrid = NoGrid
    /\ last = [op |-> "none", ret |-> "none"]
    /\ calls = 0

\* A value whose typeof is not 'number'.
String == [kind |-> "string", n |-> 0]

\* The arguments passed to the constructor: the requested clue counts, no
\* argument at all, and an argument that is not a number.
Arguments ==
    {Number(n) : n \in ((MaxN - MaxHidden)..MaxN) \cup ExtraN} \cup {Undefined, String}

\* The constructor with the lower range check off by one (N <= 17).
Constructor_RefusesLeast(arg) ==
    /\ pc = "idle"
    /\ LET n == IF arg.kind # "number" THEN DefaultN ELSE arg.n
       IN  /\ N' = n
           /\ pc' = IF n <= MinN \/ n > MaxN THEN "RangeError" ELSE "attempt"
    /\ UNCHANGED <<grid, originalGrid, numLength, SOLVE_ITERATIONS_LEFT,
                   remainRandomNumbers, remainNumbers, stack, retval, caller,
                   startGrid, last, calls>>

\* new Sudoku(arg), up to the retry loop: the default and the range checks.
Constructor(arg) ==
    /\ pc = "idle"
    /\ LET n == IF arg.kind # "number" THEN DefaultN ELSE arg.n
       IN  /\ N' = n
           /\ pc' = IF n < MinN \/ n > MaxN THEN "RangeError" ELSE "attempt"
    /\ UNCHANGED <<grid, originalGrid, numLength, SOLVE_ITERATIONS_LEFT,
                   remainRandomNumbers, remainNumbers, stack, retval, caller,
                   startGrid, last, calls>>

\* The retry loop with the grids created once, before the loop.
Attempt_KeepsGrids(value) ==
    /\ pc = "attempt"
    /\ LET g == IF grid = NoGrid THEN EmptyGrid ELSE grid
           s == setNumber(g, EmptyGrid, numLength, value, 0, 0)
       IN  /\ grid' = s.grid
           /\ numLength' = s.numLength
    /\ originalGrid' = EmptyGrid
    /\ remainRandomNumbers' = RANDOM_NUMBERS_IN_INITIALIZATION
    /\ pc' = "seed"
    /\ UNCHANGED <<N, SOLVE_ITERATIONS_LEFT, remainNumbers, stack, retval,
                   caller, startGrid, last, calls>>

\* One turn of the retry loop up to the seeding loop: fresh grids, and
\* _generateSeed's first placement at (0,0).
Attempt(value) ==
    /\ pc = "attempt"
    /\ LET s == setNumber(EmptyGrid, EmptyGrid, numLength, value, 0, 0)
       IN  /\ grid' = s.grid
           /\ numLength' = s.numLength
    /\ originalGrid' = EmptyGrid
    /\ remainRandomNumbers' = RANDOM_NUMBERS_IN_INITIALIZATION
    /\ pc' = "seed"
    /\ UNCHANGED <<N, SOLVE_ITERATIONS_LEFT, remainNumbers, stack, retval,
                   caller, startGrid, last, calls>>

\* One turn of _generateSeed's while loop.
SeedPick(x, y, value) ==
    /\ pc = "seed"
    /\ remainRandomNumbers > 1
    /\ IF getNumber(grid, x, y) # 0
       THEN UNCHANGED <<grid, numLength, remainRandomNumbers>>
       ELSE LET s == setNumber(grid, originalGrid, numLength, value, x, y)
            IN  /\ grid' = s.grid
                /\ numLength' = s.numLength
                /\ remainRandomNumbers' =
                       IF s.ret THEN remainRandomNumbers - 1 ELSE remainRandomNumbers
    /\ UNCHANGED <<pc, N, originalGrid, SOLVE_ITERATIONS_LEFT, remainNumbers,
                   stack, retval, caller, startGrid, last, calls>>

\* resolve() without the assignment of the budget.
resolve_KeepsBudget(who) ==
    /\ SOLVE_ITERATIONS_LEFT' = SOLVE_ITERATIONS_LEFT
    /\ stack' = << Frame(0, 0) >>
    /\ retval' = "none"
    /\ caller' = who
    /\ startGrid' = grid
    /\ pc' = "resolve"

\* resolve() up to its call of _resolveMatrix(0,0).
resolve(who) ==
    /\ SOLVE_ITERATIONS_LEFT' = MAXIMUM_NUMBER_ITERATIONS_UNTIL_UNSOLVABLE
    /\ stack' = << Frame(0, 0) >>
    /\ retval' = "none"
    /\ caller' = who
    /\ startGrid' = grid
    /\ pc' = "resolve"

\* The constructor's this.resolve(), once the seed is complete.
ConstructorResolve ==
    /\ pc = "seed"
    /\ remainRandomNumbers <= 1
    /\ resolve("constructor")
    /\ UNCHANGED <<N, grid, originalGrid, numLength, remainRandomNumbers,
                   remainNumbers, last, calls>>

\* The innermost frame after the budget check, run up to its next recursive
\* call or its return: f is the frame, rest the frames under it.
RunFrame(f, rest, from) ==
    LET r == forLoop(grid, originalGrid, numLength, f.x, f.y, from)
    IN  /\ grid' = r.grid
        /\ numLength' = r.numLength
        /\ IF r.called
           THEN /\ stack' = << Frame(nextX(f.x), nextY(f.x, f.y)),
                               [f EXCEPT !.at = "line140", !.i = r.i] >> \o rest
                /\ retval' = "none"
           ELSE /\ stack' = rest
                /\ retval' = "false"

\* _resolveMatrix entered with budget left, without the test for a filled
\* cell: the for loop runs on every cell.
ResolveMatrixEnter_NoFilledTest ==
    /\ pc = "resolve"
    /\ stack # << >>
    /\ Head(stack).at = "entry"
    /\ ~ (SOLVE_ITERATIONS_LEFT < 0)
    /\ SOLVE_ITERATIONS_LEFT' = SOLVE_ITERATIONS_LEFT - 1
    /\ LET f == Head(stack)
           rest == Tail(stack)
       IN  IF f.y = 9
           THEN /\ stack' = rest
                /\ retval' = "true"
                /\ UNCHANGED <<grid, numLength>>
           ELSE RunFrame(f, rest, 1)
    /\ UNCHANGED <<pc, N, originalGrid, remainRandomNumbers, remainNumbers,
                   caller, startGrid, last, calls>>

\* _resolveMatrix(x, y) entered with budget left.
ResolveMatrixEnter ==
    /\ pc = "resolve"
    /\ stack # << >>
    /\ Head(stack).at = "entry"
    /\ ~ (SOLVE_ITERATIONS_LEFT < 0)
    /\ SOLVE_ITERATIONS_LEFT' = SOLVE_ITERATIONS_LEFT - 1
    /\ LET f == Head(stack)
           rest == Tail(stack)
       IN  IF f.y = 9
           THEN /\ stack' = rest
                /\ retval' = "true"
                /\ UNCHANGED <<grid, numLength>>
           ELSE IF getNumber(grid, f.x, f.y) # 0
           THEN /\ stack' = << Frame(nextX(f.x), nextY(f.x, f.y)),
                               [f EXCEPT !.at = "line136"] >> \o rest
                /\ retval' = "none"
                /\ UNCHANGED <<grid, numLength>>
           ELSE RunFrame(f, rest, 1)
    /\ UNCHANGED <<pc, N, originalGrid, remainRandomNumbers, remainNumbers,
                   caller, startGrid, last, calls>>

\* _resolveMatrix(x, y) entered with the budget negative: the Error unwinds
\* every frame and resolve(); the constructor catches it and loops, any other
\* caller receives it.
ResolveMatrixThrow ==
    /\ pc = "resolve"
    /\ stack # << >>
    /\ Head(stack).at = "entry"
    /\ SOLVE_ITERATIONS_LEFT < 0
    /\ stack' = << >>
    /\ retval' = "none"
    /\ IF caller = "constructor"
       THEN /\ pc' = "attempt"
            /\ UNCHANGED last
       ELSE /\ pc' = "ready"
            /\ last' = [op |-> "resolve", ret |-> "Error"]
    /\ UNCHANGED <<N, grid, originalGrid, numLength, SOLVE_ITERATIONS_LEFT,
                   remainRandomNumbers, remainNumbers, caller, startGrid, calls>>

\* A recursive call returned: the calling frame goes on, up to its next
\* recursive call or its own return.
ResolveMatrixResume ==
    /\ pc = "resolve"
    /\ stack # << >>
    /\ retval # "none"
    /\ LET f == Head(stack)
           rest == Tail(stack)
       IN  IF f.at = "line136" \/ retval = "true"
           THEN /\ stack' = rest
                /\ UNCHANGED <<retval, grid, numLength>>
           ELSE RunFrame(f, rest, f.i + 1)
    /\ UNCHANGED <<pc, N, originalGrid, SOLVE_ITERATIONS_LEFT,
                   remainRandomNumbers, remainNumbers, caller, startGrid,
                   last, calls>>

\* _resolveMatrix(0,0) returned to resolve(), which drops the value and
\* returns: to the constructor, which leaves the loop and enters
\* _hideNumbers(81 - N), or to the caller.
ResolveReturn ==
    /\ pc = "resolve"
    /\ stack = << >>
    /\ retval # "none"
    /\ retval' = "none"
    /\ IF caller = "constructor"
       THEN /\ pc' = "hide"
            /\ remainNumbers' = 81 - N
            /\ UNCHANGED last
       ELSE /\ pc' = "ready"
            /\ last' = [op |-> "resolve", ret |-> "returned"]
            /\ UNCHANGED remainNumbers
    /\ UNCHANGED <<N, grid, originalGrid, numLength, SOLVE_ITERATIONS_LEFT,
                   remainRandomNumbers, stack, caller, startGrid, calls>>

\* One turn of _hideNumbers' while loop.
HidePick(x, y) ==
    /\ pc = "hide"
    /\ remainNumbers > 0
    /\ IF getNumber(grid, x, y) # 0
       THEN LET s == setNumber(grid, originalGrid, numLength, 0, x, y)
            IN  /\ grid' = s.grid
                /\ numLength' = s.numLength
                /\ remainNumbers' = remainNumbers - 1
       ELSE UNCHANGED <<grid, numLength, remainNumbers>>
    /\ UNCHANGED <<pc, N, originalGrid, SOLVE_ITERATIONS_LEFT,
                   remainRandomNumbers, stack, retval, caller, startGrid,
                   last, calls>>

\* _hideNumbers returned: the constructor's last two assignments and return.
ConstructorReturn ==
    /\ pc = "hide"
    /\ ~ (remainNumbers > 0)
    /\ originalGrid' = grid
    /\ numLength' = Number(N)
    /\ pc' = "ready"
    /\ UNCHANGED <<N, grid, SOLVE_ITERATIONS_LEFT, remainRandomNumbers,
                   remainNumbers, stack, retval, caller, startGrid, last, calls>>

\* A caller's setNumber(value, xPos, yPos) on the constructed puzzle.
UserSetNumber(value, xPos, yPos) ==
    /\ pc = "ready"
    /\ calls < MaxCalls
    /\ calls' = calls + 1
    /\ LET s == setNumber(grid, originalGrid, numLength, value, xPos, yPos)
       IN  /\ grid' = s.grid
           /\ numLength' = s.numLength
           /\ last' = [op |-> "setNumber", ret |-> IF s.ret THEN "true" ELSE "false"]
    /\ UNCHANGED <<pc, N, originalGrid, SOLVE_ITERATIONS_LEFT,
                   remainRandomNumbers, remainNumbers, stack, retval, caller,
                   startGrid>>

\* A caller's resolve() on the constructed puzzle.
UserResolve ==
    /\ pc = "ready"
    /\ calls < MaxCalls
    /\ calls' = calls + 1
    /\ resolve("user")
    /\ last' = [op |-> "resolve", ret |-> "running"]
    /\ UNCHANGED <<N, grid, originalGrid, numLength, remainRandomNumbers,
                   remainNumbers>>

Next ==
    \/ \E arg \in Arguments : Constructor(arg)
    \/ \E value \in FirstValues : Attempt(value)
    \/ \E p \in SeedPicks : SeedPick(p[1], p[2], p[3])
    \/ ConstructorResolve
    \/ ResolveMatrixEnter
    \/ ResolveMatrixThrow
    \/ ResolveMatrixResume
    \/ ResolveReturn
    \/ \E p \in HidePicks : HidePick(p[1], p[2])
    \/ ConstructorReturn
    \/ \E p \in UserCells, value \in UserValues : UserSetNumber(value, p[1], p[2])
    \/ UserResolve

Spec == Init /\ [][Next]_vars

\* ------------------------------------------------- what the claims say
\* The number of cells of g holding a value.
Count(g) == Cardinality({c \in DOMAIN g : g[c] # 0})

Full(g) == \A c \in 0..(Cells - 1) : g[c] # 0

\* Distinct cells c and d share a row, a column or a 3x3 box.
Related(c, d) ==
    /\ c # d
    /\ \/ c \div 9 = d \div 9
       \/ c % 9 = d % 9
       \/ /\ c \div 27 = d \div 27
          /\ (c % 9) \div 3 = (d % 9) \div 3

\* The cells that share a row, a column or a box with c.
Peers == [c \in 0..(Cells - 1) |-> {d \in 0..(Cells - 1) : Related(c, d)}]

LaterPeers == [c \in 0..(Cells - 1) |-> {d \in Peers[c] : d > c}]

\* Every value of g is alone in its row, column and box.
Unique(g) ==
    \A c \in 0..(Cells - 1) : g[c] = 0 \/ \A d \in LaterPeers[c] : g[d] # g[c]

\* The constructor has returned.
Constructed == pc = "ready" \/ (pc = "resolve" /\ caller = "user")

\* The constructor returned a puzzle with the requested number of clues.
WellConstructed == Constructed /\ Count(originalGrid) = N

\* C1: when the constructor returns, the grid holds exactly N nonzero cells.
C1_ExactlyNClues ==
    (pc = "ready" /\ calls = 0) => Count(grid) = N

\* C2: in every state from the first grid on, during construction (failed
\* attempts included) and under the caller's setNumber and resolve calls,
\* every nonzero value of the grid occurs once at most in its row, its column
\* and its box.
C2_ValuesUnique ==
    grid # NoGrid => Unique(grid)

\* A resolve() of the caller ended in the Error and left values of its search
\* in the grid.
C2_Witness ==
    /\ pc = "ready"
    /\ last = [op |-> "resolve", ret |-> "Error"]
    /\ Count(grid) > Count(startGrid)

\* C3: a cell that was nonzero when the constructor returned keeps that value
\* whatever is called, and setNumber on it, with any value, returns false and
\* changes neither the grid nor the counter.
C3_ClueImmutable ==
    /\ [](Constructed =>
            \A c \in 0..(Cells - 1) : originalGrid[c] # 0 => grid[c] = originalGrid[c])
    /\ [][\A p \in UserCells, v \in UserValues :
            (UserSetNumber(v, p[1], p[2]) /\ originalGrid[Idx(p[1], p[2])] # 0)
                => (last'.ret = "false" /\ grid' = grid /\ numLength' = numLength)]_vars

\* setNumber was called on a puzzle all of whose addressed cells are clues,
\* and returned false.
C3_Witness ==
    /\ pc = "ready"
    /\ last = [op |-> "setNumber", ret |-> "false"]
    /\ \A p \in UserCells : originalGrid[Idx(p[1], p[2])] # 0

\* C4: a resolve() that returns normally leaves all 81 cells nonzero (any
\* other end is the Error), on a puzzle built with its N clues.
C4_ResolveCompletesOrThrows ==
    (WellConstructed /\ pc = "ready" /\ last = [op |-> "resolve", ret |-> "returned"])
        => Full(grid)

\* C5: when the constructor leaves the retry loop for the hiding step, before
\* anything is hidden, all 81 cells are nonzero.
C5_HideOnlySolved ==
    (pc = "hide" /\ remainNumbers = 81 - N) => Full(grid)

\* C6: while the hiding loop has cells left to clear, a filled cell is left
\* to pick.
C6_HideCanProceed ==
    (pc = "hide" /\ remainNumbers > 0) => \E c \in 0..(Cells - 1) : grid[c] # 0

\* C7: on a non-clue cell and for a value 1..9, setNumber returns true exactly
\* when the value is in no other cell of the row, the column and the box; it
\* then writes that cell alone, and otherwise writes nothing.
C7_SetNumberContract ==
    [][\A p \in UserCells, v \in 1..9 :
         (UserSetNumber(v, p[1], p[2]) /\ originalGrid[Idx(p[1], p[2])] = 0)
             => LET c == Idx(p[1], p[2])
                    free == \A d \in Peers[c] : grid[d] # v
                IN  /\ (last'.ret = "true") <=> free
                    /\ free => grid' = [grid EXCEPT ![c] = v]
                    /\ ~ free => grid' = grid]_vars

\* The first call on a puzzle was a setNumber that returned true and wrote a
\* value in a non-clue cell.
C7_Witness ==
    /\ pc = "ready"
    /\ calls = 1
    /\ last = [op |-> "setNumber", ret |-> "true"]
    /\ \E c \in 0..(Cells - 1) : originalGrid[c] = 0 /\ grid[c] # 0

\* C8: after construction with N clues, the counter is the number of cells
\* holding a value.
C8_CounterIsCount ==
    WellConstructed => numLength = Number(Count(grid))

\* C9: isResolved() is true exactly when all 81 cells hold a value.
C9_ResolvedIffComplete ==
    (WellConstructed /\ pc = "ready") => (isResolved <=> Full(grid))

\* C10 as stated: isResolved() is true exactly when the counter equals the
\* requested N, on a puzzle built with its N clues.
C10_ResolvedIffTarget ==
    (WellConstructed /\ pc = "ready") => (isResolved <=> numLength = Number(N))

\* C10 as amended: isResolved() is true exactly when the counter equals 81;
\* right after construction that is exactly when N is 81.
C10_ResolvedIff81 ==
    pc = "ready" =>
        /\ isResolved <=> (numLength.kind = "number" /\ numLength.n = 81)
        /\ calls = 0 => (isResolved <=> N = 81)

\* isResolved() is true on a puzzle requested with fewer than 81 clues.
C10_Witness ==
    pc = "ready" /\ isResolved /\ N < 81

\* C11: a number under 17 or over 81 ends the construction in the RangeError
\* with no grid created and no seeding or solving step run, and nothing
\* follows it (no retry); a number in 17..81 is accepted as N; an argument
\* that is missing or not a number is accepted as N = 31.
C11_RangeChecked ==
    /\ [][\A arg \in Arguments : Constructor(arg) =>
            IF arg.kind # "number"
            THEN N' = 31 /\ pc' = "attempt"
            ELSE IF arg.n < 17 \/ arg.n > 81
            THEN pc' = "RangeError"
            ELSE N' = arg.n /\ pc' = "attempt"]_vars
    /\ [](pc = "RangeError" =>
            /\ N < 17 \/ N > 81
            /\ grid = NoGrid /\ originalGrid = NoGrid /\ numLength = Undefined
            /\ stack = << >> /\ caller = "none" /\ SOLVE_ITERATIONS_LEFT = 0)
    /\ [](pc \notin {"idle", "RangeError"} => (17 <= N /\ N <= 81))
    /\ [][pc # "RangeError"]_vars

\* The construction ended in the RangeError for a number over 81.
C11_Witness ==
    pc = "RangeError" /\ N > 81

\* C12: every resolve(), the constructor's and the caller's, starts with the
\* budget at 1000 whatever it was; every invocation of _resolveMatrix that
\* completes takes one unit and no other step changes the budget, which never
\* goes under -1 (1001 invocations complete, the next one throws); the
\* invocation that finds the budget negative ends the whole search at once,
\* leaving no frame and writing no cell.
C12_BudgetDiscipline ==
    /\ [][(ConstructorResolve \/ UserResolve) => SOLVE_ITERATIONS_LEFT' = 1000]_vars
    /\ [][ResolveMatrixEnter =>
            (SOLVE_ITERATIONS_LEFT >= 0 /\ SOLVE_ITERATIONS_LEFT' = SOLVE_ITERATIONS_LEFT - 1)]_vars
    /\ [][SOLVE_ITERATIONS_LEFT' # SOLVE_ITERATIONS_LEFT =>
            (ConstructorResolve \/ UserResolve \/ ResolveMatrixEnter)]_vars
    /\ [](pc = "resolve" =>
            (SOLVE_ITERATIONS_LEFT >= -1 /\ SOLVE_ITERATIONS_LEFT <= 1000))
    /\ [][(pc = "resolve" /\ stack # << >> /\ Head(stack).at = "entry"
            /\ SOLVE_ITERATIONS_LEFT < 0) =>
            (pc' # "resolve" /\ stack' = << >> /\ grid' = grid /\ numLength' = numLength
             /\ (caller = "user" => last' = [op |-> "resolve", ret |-> "Error"]))]_vars

\* A resolve() of the caller used up its budget and ended in the Error.
C12_Witness ==
    /\ pc = "ready"
    /\ last = [op |-> "resolve", ret |-> "Error"]
    /\ SOLVE_ITERATIONS_LEFT = -1

\* The reference search as an iteration over [g, c, back]: g the grid so far,
\* c the cell it stands on (Cells: a completion is found; -1: there is none),
\* back whether it came to c by backtracking.  start is the grid to complete.
\* The values of start stay; every other cell takes the least value above
\* the one it holds (0 when reached going forward) that is in no peer cell,
\* and is cleared when there is none.
ReferenceStep(start, st) ==
    IF st.c = Cells \/ st.c = -1 THEN st
    ELSE IF start[st.c] # 0
    THEN [st EXCEPT !.c = IF st.back THEN st.c - 1 ELSE st.c + 1]
    ELSE LET free == {v \in (st.g[st.c] + 1)..9 : \A d \in Peers[st.c] : st.g[d] # v}
         IN  IF free = {}
             THEN [g |-> [st.g EXCEPT ![st.c] = 0], c |-> st.c - 1, back |-> TRUE]
             ELSE [g |-> [st.g EXCEPT ![st.c] = CHOOSE v \in free : \A w \in free : v <= w],
                   c |-> st.c + 1, back |-> FALSE]

\* 2^k steps of the reference search, or as many as it takes to end.
RECURSIVE ReferenceRun(_, _, _)
ReferenceRun(start, st, k) ==
    IF st.c = Cells \/ st.c = -1 THEN st
    ELSE IF k = 0 THEN ReferenceStep(start, st)
    ELSE ReferenceRun(start, ReferenceRun(start, st, k - 1), k - 1)

\* The first completion of start in index order with ascending values, or
\* NoGrid when 2^11 steps meet none.  2^11 steps are enough for every search
\* of at most 1001 cell visits (one step forward and one back for each).
Reference(start) ==
    LET end == ReferenceRun(start, [g |-> start, c |-> 0, back |-> FALSE], 11)
    IN  IF end.c = Cells THEN end.g ELSE NoGrid

\* resolve() has just returned, to the constructor or to the caller.
ResolveReturned ==
    \/ pc = "hide" /\ remainNumbers = 81 - N
    \/ pc = "ready" /\ last = [op |-> "resolve", ret |-> "returned"]

\* resolve() has just returned with every cell filled.
ResolveCompleted == ResolveReturned /\ Full(grid)

\* C13: when resolve() completes the grid, the grid is a valid completion of
\* the grid it was called on, and the one the reference search in index order
\* with ascending values returns (the lexicographically smallest).
C13_FirstSolutionWins ==
    ResolveCompleted =>
        /\ Unique(grid)
        /\ \A c \in 0..(Cells - 1) : startGrid[c] # 0 => grid[c] = startGrid[c]
        /\ grid = Reference(startGrid)

\* The constructor's resolve() completed a seed of 8 values.
C13_Witness ==
    pc = "hide" /\ remainNumbers = 81 - N /\ Full(grid) /\ Count(startGrid) = 8

\* The grid resolve() was called on, with the value each unfinished for loop
\* of the search is trying: the invocation on cell c is the c-th frame from
\* the bottom of the stack.
SearchGrid ==
    [c \in 0..(Cells - 1) |->
        IF c < Len(stack) /\ stack[Len(stack) - c].at = "line140"
        THEN stack[Len(stack) - c].i
        ELSE startGrid[c]]

\* C14: while no completion is found, the grid is the grid resolve() was
\* called on plus the values being tried by the invocations still running,
\* so every invocation that returns false leaves all 81 cells as they were
\* when it was entered; and a resolve() that returns without a completion
\* leaves the grid it was called on.
C14_BacktrackRestores ==
    /\ (pc = "resolve" /\ retval # "true") =>
            /\ \A k \in 1..Len(stack) : Idx(stack[k].x, stack[k].y) = Len(stack) - k
            /\ grid = SearchGrid
    /\ (pc = "resolve" /\ stack = << >> /\ retval = "false") => grid = startGrid
    /\ (ResolveReturned /\ ~ Full(grid)) => grid = startGrid

\* A resolve() of the caller on a grid with empty cells tried values, found
\* no completion and returned.
C14_Witness ==
    /\ pc = "ready"
    /\ last = [op |-> "resolve", ret |-> "returned"]
    /\ ~ Full(grid)
    /\ SOLVE_ITERATIONS_LEFT < 1000 - 2

\* C15: in every attempt, the first and every one after an Error, the grid
\* holds the values this attempt's seeding has placed and no other; when the
\* seeding is done and the constructor calls resolve(), these are exactly 8,
\* one of them at (0,0), each alone in its row, column and box, and no cell
\* is a clue yet.
C15_FreshSeed ==
    /\ pc = "seed" =>
            /\ Count(grid) = RANDOM_NUMBERS_IN_INITIALIZATION - remainRandomNumbers + 1
            /\ grid[0] # 0
            /\ originalGrid = EmptyGrid
    /\ (pc = "seed" /\ remainRandomNumbers <= 1) => (Count(grid) = 8 /\ Unique(grid))
    /\ (pc = "resolve" /\ caller = "constructor") =>
            (Count(startGrid) = 8 /\ startGrid[0] # 0 /\ Unique(startGrid))

\* After an attempt that ended in the Error, the next attempt's seeding is
\* done and resolve() is about to be called.
C15_Witness ==
    pc = "seed" /\ remainRandomNumbers = 1 /\ SOLVE_ITERATIONS_LEFT = -1

\* C16: during a resolve() and when it has ended, with a completion, without
\* one or in the Error, every cell that held a value when resolve() was
\* called, clue or not, holds that value.
C16_ResolveKeepsFilled ==
    (\/ pc = "resolve"
     \/ ResolveReturned
     \/ pc = "ready" /\ last = [op |-> "resolve", ret |-> "Error"]
     \/ pc = "attempt" /\ grid # NoGrid)
        => \A c \in 0..(Cells - 1) : startGrid[c] # 0 => grid[c] = startGrid[c]

\* A resolve() of the caller returned on a grid that held a value the caller
\* had entered.
C16_Witness ==
    /\ pc = "ready"
    /\ last = [op |-> "resolve", ret |-> "returned"]
    /\ \E c \in 0..(Cells - 1) : startGrid[c] # 0 /\ originalGrid[c] = 0

====
